---- MODULE Spec2Model ----
(***************************************************************************)
(* A model of the OpenGL demo programs of this repository: the life cycle  *)
(* of each program's main (start-up, render loop, tear-down) with the GL   *)
(* objects it creates and deletes, the breakout game (game2D.cpp), the     *)
(* particle systems (naturalphenomena) and the running race (CEStudents).  *)
(*                                                                         *)
(* Numbers.  The programs compute in float.  The model computes in fixed   *)
(* point: a length of 1.0 is UNIT = 10000 model units and a time of one    *)
(* second is TICKS = 10000 ticks, so that every constant of the sources    *)
(* (0.2f, 0.03f, 0.0005f ...) is an integer.  Float rounding is not        *)
(* modelled.                                                               *)
(***************************************************************************)
EXTENDS Integers, Sequences, FiniteSets, TLC

UNIT == 100 * 100
TICKS == 100 * 100

Range(s) == {s[i] : i \in DOMAIN s}

(***************************************************************************)
(* Bounds of the model.                                                    *)
(***************************************************************************)
\* at most this many shader stages fail in one run
MaxShaderFailures == 1
\* the count of render-loop iterations saturates here
MaxFrames == 1

(***************************************************************************)
(* The programs, one per source file with a main.                          *)
(***************************************************************************)
Programs ==
    {"game2D", "naturalphenomena", "CEStudents", "raceScene",
     "cube3D", "bouncingBalls", "scene3D"}

RacePrograms == {"CEStudents", "raceScene"}

\* the programs whose main tests the result of glfwInit()
ChecksGlfwInit(p) == p \in {"game2D", "cube3D", "bouncingBalls", "scene3D"}

MSG_GLFW == "Failed to initialize GLFW"
MSG_WINDOW == "Failed to create GLFW window"
MSG_GLAD == "Failed to initialize GLAD"
MSG_VERTEX == "ERROR::SHADER::VERTEX::COMPILATION_FAILED"
MSG_FRAGMENT == "ERROR::SHADER::FRAGMENT::COMPILATION_FAILED"
MSG_LINK == "ERROR::SHADER::PROGRAM::LINKING_FAILED"

StageMessage(kind) ==
    CASE kind = "VERTEX" -> MSG_VERTEX
      [] kind = "FRAGMENT" -> MSG_FRAGMENT
      [] OTHER -> MSG_LINK

(***************************************************************************)
(* The shader stages a program builds at start-up, in source order.  A     *)
(* stage is one glCompileShader or glLinkProgram call; checked says        *)
(* whether the code reads its status (and logs a failure); inputs are the  *)
(* compile stages whose shaders a link stage attaches.                     *)
(***************************************************************************)
Stage(id, kind, checked, inputs) ==
    [id |-> id, kind |-> kind, checked |-> checked, inputs |-> inputs]

\* one checked vertex + fragment + link triple, as every createShaderProgram does
ProgramStages(name) ==
    << Stage(name \o ".vertex", "VERTEX", TRUE, {}),
       Stage(name \o ".fragment", "FRAGMENT", TRUE, {}),
       Stage(name \o ".link", "LINK", TRUE,
             {name \o ".vertex", name \o ".fragment"}) >>

ShaderStages(p) ==
    CASE p = "CEStudents" ->
            ProgramStages("shaderProgram") \o ProgramStages("textShaderProgram")
            \o ProgramStages("skyboxShader")
      [] p = "raceScene" ->
            ProgramStages("shaderProgram") \o ProgramStages("textShaderProgram")
      [] p = "scene3D" ->
            ProgramStages("shaderProgram") \o
            << Stage("lightShaderProgram.fragment", "FRAGMENT", FALSE, {}),
               Stage("lightShaderProgram.link", "LINK", FALSE,
                     {"shaderProgram.vertex", "lightShaderProgram.fragment"}) >>
      [] OTHER -> ProgramStages("shaderProgram")

StageIds(p) == {s.id : s \in Range(ShaderStages(p))}

\* the shader programs glCreateProgram returns
ShaderProgramNames(p) ==
    CASE p = "CEStudents" -> {"shaderProgram", "textShaderProgram", "skyboxShader"}
      [] p = "raceScene" -> {"shaderProgram", "textShaderProgram"}
      [] p = "scene3D" -> {"shaderProgram", "lightShaderProgram"}
      [] OTHER -> {"shaderProgram"}

(***************************************************************************)
(* The vertex arrays and buffers a program generates before its loop.      *)
(* "x.VBO" / "x.EBO" is the buffer a create function generates into a      *)
(* local and does not return.                                              *)
(***************************************************************************)
StartupArrays(p, fontOk) ==
    CASE p \in {"game2D", "cube3D"} -> {"VAO", "VBO", "EBO"}
      [] p = "naturalphenomena" ->
            {"particleVAO", "particleVAO.VBO", "groundVAO", "groundVAO.VBO",
             "skyboxVAO", "skyboxVAO.VBO"}
      [] p \in RacePrograms ->
            {"trackVAO", "trackVAO.VBO", "groundVAO", "groundVAO.VBO",
             "skyboxVAO", "skyboxVAO.VBO"}
            \cup (IF fontOk THEN {"textVAO", "textVBO"} ELSE {})
      [] p = "bouncingBalls" ->
            {"circleVAO", "circleVBO", "circleEBO", "quadVAO", "quadVBO", "quadEBO"}
      [] OTHER ->
            {"cubeVAO", "cubeVAO.VBO", "sphereVAO", "sphereVAO.VBO",
             "sphereVAO.EBO", "lightVAO", "lightVAO.VBO"}

StartupObjects(p, fontOk) == StartupArrays(p, fontOk) \cup ShaderProgramNames(p)

\* the glDelete* calls after the loop, in source order
CleanupCalls(p) ==
    CASE p \in {"game2D", "cube3D"} -> <<"VAO", "VBO", "EBO", "shaderProgram">>
      [] p = "naturalphenomena" ->
            <<"particleVAO", "groundVAO", "skyboxVAO", "shaderProgram">>
      [] p \in RacePrograms ->
            <<"trackVAO", "groundVAO", "skyboxVAO", "textVAO", "textVBO",
              "shaderProgram", "textShaderProgram">>
      [] p = "bouncingBalls" ->
            <<"circleVAO", "circleVBO", "circleEBO", "quadVAO", "quadVBO",
              "quadEBO", "shaderProgram">>
      [] OTHER ->
            <<"cubeVAO", "sphereVAO", "lightVAO", "shaderProgram",
              "lightShaderProgram">>

\* the vertex array and the buffer drawCube generates on every call
DrawCubeObjects == {"drawCube.VAO", "drawCube.VBO"}

(***************************************************************************)
(* Fixed-point arithmetic for the float expressions of game2D.cpp.         *)
(***************************************************************************)
Abs(a) == IF a < 0 THEN -a ELSE a
Sign(a) == IF a < 0 THEN -1 ELSE 1
\* a / b rounded to the nearest integer, b > 0
RDiv(a, b) == Sign(a) * ((Abs(a) + b \div 2) \div b)

\* sin and cos of x, x in 1/UNIT radians (|x| < 1.3 rad), result in 1/UNIT:
\* the Taylor polynomials up to x^7 and x^8
Sin(x) ==
    LET x2 == RDiv(x * x, UNIT)
        p3 == RDiv(x * x2, UNIT)
        p5 == RDiv(p3 * x2, UNIT)
        p7 == RDiv(p5 * x2, UNIT)
    IN  x - RDiv(p3, 6) + RDiv(p5, 120) - RDiv(p7, 5040)

Cos(x) ==
    LET x2 == RDiv(x * x, UNIT)
        x4 == RDiv(x2 * x2, UNIT)
        x6 == RDiv(x4 * x2, UNIT)
        x8 == RDiv(x6 * x2, UNIT)
    IN  UNIT - RDiv(x2, 2) + RDiv(x4, 24) - RDiv(x6, 720) + RDiv(x8, 40320)

\* 3.14159f in 1/100000
PI_F == 314159
\* d degrees in 1/UNIT radians: d * 3.14159f / 180.0f
Radians(d) == RDiv(d * PI_F, 1800)

\* glm::length of (vx, vy), rounded to the nearest unit
Length(vx, vy) ==
    LET n == vx * vx + vy * vy
    IN  CHOOSE s \in 0..(Abs(vx) + Abs(vy)) :
            (2 * s - 1) * (2 * s - 1) <= 4 * n /\ 4 * n < (2 * s + 1) * (2 * s + 1)

(***************************************************************************)
(* game2D.cpp: the breakout game.                                          *)
(***************************************************************************)
PADDLE_WIDTH == 2000
PADDLE_HEIGHT == 300
BALL_SIZE == 200
BRICK_WIDTH == 1000
BRICK_HEIGHT == 400
BRICK_ROWS == 5
BRICK_COLS == 8
BALL_VELOCITY == 100
WAIT_TIME_SECONDS == 240
\* the paddle moves 0.03f per frame
PADDLE_STEP == 300
\* the bricks' gap (0.02f) and the first brick's centre (-0.9f, 0.7f)
BRICK_GAP == 200
BRICK_X0 == -9000
BRICK_Y0 == 7000
\* the paddle's height on the screen (-0.9f) and the ball's start (0, -0.7f)
PADDLE_Y == -9000
BALL_Y0 == -7000
\* the largest reflection angle off the paddle, in degrees
MAX_REFLECT_DEG == 60
SCORE_PER_BRICK == 10

\* the values rand() returns, as far as the model draws them
RandValues == {0, 45, 89, 100}

GameKeys == {"ESC", "LEFT", "RIGHT"}

GameObject(x, y, w, h) == [x |-> x, y |-> y, w |-> w, h |-> h, active |-> TRUE]

\* the same tests joined by "or": an overlap on either axis
checkCollision_anyAxis(a, b) ==
    LET collisionX == a.x + a.w \div 2 >= b.x - b.w \div 2 /\
                      b.x + b.w \div 2 >= a.x - a.w \div 2
        collisionY == a.y + a.h \div 2 >= b.y - b.h \div 2 /\
                      b.y + b.h \div 2 >= a.y - a.h \div 2
    IN  collisionX \/ collisionY

\* checkCollision(a, b): the extents meet on the x axis and on the y axis
checkCollision(a, b) ==
    LET collisionX == a.x + a.w \div 2 >= b.x - b.w \div 2 /\
                      b.x + b.w \div 2 >= a.x - a.w \div 2
        collisionY == a.y + a.h \div 2 >= b.y - b.h \div 2 /\
                      b.y + b.h \div 2 >= a.y - a.h \div 2
    IN  collisionX /\ collisionY

\* resetBall(), r the value rand() returns
resetBall(gs, r) ==
    LET angle == Radians((r % 90) - 45)
    IN  [gs EXCEPT !.ball = GameObject(0, BALL_Y0, BALL_SIZE, BALL_SIZE),
                   !.vx = RDiv(BALL_VELOCITY * Sin(angle), UNIT),
                   !.vy = BALL_VELOCITY]

Brick(row, col) ==
    GameObject(BRICK_X0 + col * (BRICK_WIDTH + BRICK_GAP),
               BRICK_Y0 - row * (BRICK_HEIGHT + BRICK_GAP),
               BRICK_WIDTH, BRICK_HEIGHT)

\* the bricks initGame() pushes, row by row
NewBricks ==
    [i \in 1..(BRICK_ROWS * BRICK_COLS) |->
        Brick((i - 1) \div BRICK_COLS, (i - 1) % BRICK_COLS)]

\* initGame() without the assignment score = 0
initGame_keepsScore(gs, r) ==
    LET g1 == [gs EXCEPT !.paddle = GameObject(0, PADDLE_Y, PADDLE_WIDTH, PADDLE_HEIGHT)]
        g2 == resetBall(g1, r)
    IN  [g2 EXCEPT !.bricks = NewBricks,
                   !.gameOver = FALSE,
                   !.gameStarted = FALSE]

initGame(gs, r) ==
    LET g1 == [gs EXCEPT !.paddle = GameObject(0, PADDLE_Y, PADDLE_WIDTH, PADDLE_HEIGHT)]
        g2 == resetBall(g1, r)
    IN  [g2 EXCEPT !.bricks = NewBricks,
                   !.gameOver = FALSE,
                   !.score = 0,
                   !.gameStarted = FALSE]

\* the GameState global before initGame(): default members, empty vector
GameState0 ==
    [paddle |-> GameObject(0, 0, 0, 0), ball |-> GameObject(0, 0, 0, 0),
     vx |-> 0, vy |-> 0, bricks |-> << >>,
     gameOver |-> FALSE, score |-> 0, gameStarted |-> FALSE, startTime |-> 0]

\* the paddle part of processInput(): LEFT, then RIGHT, each clamped
movePaddle_unguarded(gs, ks) ==
    LET half == gs.paddle.w \div 2
        x0 == gs.paddle.x
        x1 == IF "LEFT" \in ks
              THEN (IF x0 - PADDLE_STEP - half < -UNIT THEN -UNIT + half
                    ELSE x0 - PADDLE_STEP)
              ELSE x0
        x2 == IF "RIGHT" \in ks
              THEN (IF x1 + PADDLE_STEP + half > UNIT THEN UNIT - half
                    ELSE x1 + PADDLE_STEP)
              ELSE x1
    IN  [gs EXCEPT !.paddle.x = x2]

\* the paddle part of processInput() without the two tests against the walls
movePaddle_unclamped(gs, ks) ==
    IF gs.gameStarted
    THEN [gs EXCEPT !.paddle.x = @ - (IF "LEFT" \in ks THEN PADDLE_STEP ELSE 0)
                                   + (IF "RIGHT" \in ks THEN PADDLE_STEP ELSE 0)]
    ELSE gs

\* processInput() moves the paddle only once the game has started
movePaddle(gs, ks) ==
    IF gs.gameStarted THEN movePaddle_unguarded(gs, ks) ELSE gs

\* the index of the first active brick the ball touches, 0 if none
FirstHit(gs) ==
    LET hits == {i \in DOMAIN gs.bricks :
                    gs.bricks[i].active /\ checkCollision(gs.ball, gs.bricks[i])}
    IN  IF hits = {} THEN 0 ELSE CHOOSE i \in hits : \A j \in hits : i <= j

allBricksDestroyed(gs) == \A i \in DOMAIN gs.bricks : ~gs.bricks[i].active

\* initGame() alone, which leaves gameStarted false
resetGame_notStarted(gs, r) == initGame(gs, r)

\* initGame(), then gameStarted = true
resetGame(gs, r) == [initGame(gs, r) EXCEPT !.gameStarted = TRUE]

\* updateGame() up to its last test, the paddle giving the ball its new
\* horizontal velocity only
updateBall_keepsFalling(gs) ==
    LET half == gs.ball.w \div 2
        \* move the ball
        g1 == [gs EXCEPT !.ball.x = @ + gs.vx, !.ball.y = @ + gs.vy]
        \* walls
        g2 == [g1 EXCEPT
                 !.vx = IF g1.ball.x - half < -UNIT \/ g1.ball.x + half > UNIT
                        THEN -@ ELSE @,
                 !.vy = IF g1.ball.y + g1.ball.h \div 2 > UNIT THEN -@ ELSE @]
        \* paddle
        hitPos == RDiv((g2.ball.x - g2.paddle.x) * UNIT, g2.paddle.w \div 2)
        angle == RDiv(RDiv(hitPos * MAX_REFLECT_DEG, 180) * PI_F, 100000)
        speed == Length(g2.vx, g2.vy)
        g3 == IF checkCollision(g2.ball, g2.paddle)
              THEN [g2 EXCEPT !.vx = RDiv(speed * Sin(angle), UNIT)]
              ELSE g2
        \* bricks: the first active brick hit
        k == FirstHit(g3)
        g4 == IF k # 0
              THEN [g3 EXCEPT !.bricks[k].active = FALSE,
                              !.vy = -@,
                              !.score = @ + SCORE_PER_BRICK]
              ELSE g3
        \* below the screen
        g5 == IF g4.ball.y - g4.ball.h \div 2 < -UNIT
              THEN [g4 EXCEPT !.gameOver = TRUE] ELSE g4
    IN  g5

\* updateGame() up to its last test: ball, walls, paddle, bricks, bottom
updateBall(gs) ==
    LET half == gs.ball.w \div 2
        \* move the ball
        g1 == [gs EXCEPT !.ball.x = @ + gs.vx, !.ball.y = @ + gs.vy]
        \* walls
        g2 == [g1 EXCEPT
                 !.vx = IF g1.ball.x - half < -UNIT \/ g1.ball.x + half > UNIT
                        THEN -@ ELSE @,
                 !.vy = IF g1.ball.y + g1.ball.h \div 2 > UNIT THEN -@ ELSE @]
        \* paddle
        hitPos == RDiv((g2.ball.x - g2.paddle.x) * UNIT, g2.paddle.w \div 2)
        angle == RDiv(RDiv(hitPos * MAX_REFLECT_DEG, 180) * PI_F, 100000)
        speed == Length(g2.vx, g2.vy)
        g3 == IF checkCollision(g2.ball, g2.paddle)
              THEN [g2 EXCEPT !.vx = RDiv(speed * Sin(angle), UNIT),
                              !.vy = Abs(RDiv(speed * Cos(angle), UNIT))]
              ELSE g2
        \* bricks: the first active brick hit
        k == FirstHit(g3)
        g4 == IF k # 0
              THEN [g3 EXCEPT !.bricks[k].active = FALSE,
                              !.vy = -@,
                              !.score = @ + SCORE_PER_BRICK]
              ELSE g3
        \* below the screen
        g5 == IF g4.ball.y - g4.ball.h \div 2 < -UNIT
              THEN [g4 EXCEPT !.gameOver = TRUE] ELSE g4
    IN  g5

\* updateGame() without the assignment gameOver = true
updateGame_keepsPlaying(gs, r) ==
    LET g == [updateBall(gs) EXCEPT !.gameOver = gs.gameOver]
    IN  IF allBricksDestroyed(g) THEN resetGame(g, r) ELSE g

\* updateGame(), r the value rand() returns should the game be reset
updateGame(gs, r) ==
    LET g == updateBall(gs)
    IN  IF allBricksDestroyed(g) THEN resetGame(g, r) ELSE g

(***************************************************************************)
(* naturalphenomena: the particle systems.  The model runs a system at     *)
(* 1/ParticleScale of its capacity; a particle is its life and maxLife     *)
(* (position, velocity and colour feed neither the life test nor the       *)
(* spawn loop).  Times are in ticks.                                       *)
(***************************************************************************)
ParticleScale == 400
\* the clock of the particle program stops after this many steps of ParticleDt
MaxParticleSteps == 5
\* the time between two frames is 0 or one second
ParticleDt == 1 * TICKS

SystemTypes == {"RAIN", "WATERFALL", "FIRE", "DUST", "COFFEE_CEREMONY"}

RAIN_MAX == 1000
WATERFALL_MAX == 2000
FIRE_MAX == 800
DUST_MAX == 600
COFFEE_MAX == 500
RAIN_RATE == 10
WATERFALL_RATE == 5
FIRE_RATE == 5
DUST_RATE == 100
COFFEE_RATE == 80

\* the max argument of the constructor, scaled
maxParticlesOf(t) ==
    (CASE t = "RAIN" -> RAIN_MAX
       [] t = "WATERFALL" -> WATERFALL_MAX
       [] t = "FIRE" -> FIRE_MAX
       [] t = "DUST" -> DUST_MAX
       [] OTHER -> COFFEE_MAX) \div ParticleScale

\* the rate argument of the constructor
spawnRateOf(t) ==
    CASE t = "RAIN" -> RAIN_RATE
      [] t = "WATERFALL" -> WATERFALL_RATE
      [] t = "FIRE" -> FIRE_RATE
      [] t = "DUST" -> DUST_RATE
      [] OTHER -> COFFEE_RATE

\* the ends of the range spawnParticle draws the life from
LifeChoices(t) ==
    CASE t = "RAIN" -> {1 * TICKS, 2 * TICKS}
      [] t = "WATERFALL" -> {2 * TICKS, 4 * TICKS}
      [] t = "FIRE" -> {TICKS \div 2, (3 * TICKS) \div 2}
      [] t = "DUST" -> {5 * TICKS, 10 * TICKS}
      [] OTHER -> {4 * TICKS, 6 * TICKS}

Particle(life) == [life |-> life, maxLife |-> life]

\* the members a ParticleSystem constructor sets; last is the record of what
\* the latest update did to each particle it found, lastDt its argument
System0(t) ==
    [type |-> t, particles |-> << >>, maxParticles |-> maxParticlesOf(t),
     spawnRate |-> spawnRateOf(t), timeSinceLastSpawn |-> 0, isActive |-> TRUE,
     last |-> << >>, lastDt |-> 0]

\* the derived constructors pre-populate maxParticles / 4 particles
Prepopulated(t) == maxParticlesOf(t) \div 4

\* spawnParticle(), life the value drawn
spawnParticle(sys, life) ==
    [sys EXCEPT !.particles = Append(@, Particle(life))]

RECURSIVE spawnAll(_, _)
spawnAll(sys, lives) ==
    IF lives = << >> THEN sys
    ELSE spawnAll(spawnParticle(sys, Head(lives)), Tail(lives))

construct(t, lives) == spawnAll(System0(t), lives)

\* one pass of the update loop over one particle: what becomes of it
stepParticle_moveFirst(p, dt) ==
    [life |-> p.life - dt, maxLife |-> p.maxLife,
     erased |-> p.life - dt <= 0, moved |-> TRUE, before |-> p.life]

stepParticle(p, dt) ==
    [life |-> p.life - dt, maxLife |-> p.maxLife,
     erased |-> p.life - dt <= 0, moved |-> ~(p.life - dt <= 0), before |-> p.life]

\* the spawn loop runs while timeSinceLastSpawn >= spawnRate and there is room
canSpawn_offByOne(sys, t, n) == t >= sys.spawnRate /\ n <= sys.maxParticles

canSpawn(sys, t, n) == t >= sys.spawnRate /\ n < sys.maxParticles

\* how many particles the spawn loop adds, from t ticks and n particles
RECURSIVE spawnCount(_, _, _)
spawnCount(sys, t, n) ==
    IF canSpawn(sys, t, n)
    THEN 1 + spawnCount(sys, t - sys.spawnRate, n + 1)
    ELSE 0

\* update(dt), lives the lives drawn for the particles it spawns
update(sys, dt, lives) ==
    IF ~sys.isActive THEN sys
    ELSE LET stepped == [i \in DOMAIN sys.particles |-> stepParticle(sys.particles[i], dt)]
             kept == SelectSeq(stepped, LAMBDA q : ~q.erased)
             s1 == [sys EXCEPT
                      !.particles = [i \in DOMAIN kept |->
                                        [life |-> kept[i].life, maxLife |-> kept[i].maxLife]],
                      !.timeSinceLastSpawn = @ + dt,
                      !.last = stepped,
                      !.lastDt = dt]
             s2 == spawnAll(s1, lives)
         IN  [s2 EXCEPT !.timeSinceLastSpawn = @ - Len(lives) * sys.spawnRate]

\* the number of particles update(dt) spawns
updateSpawns(sys, dt) ==
    IF ~sys.isActive THEN 0
    ELSE LET alive == Cardinality({i \in DOMAIN sys.particles :
                                      ~stepParticle(sys.particles[i], dt).erased})
         IN  spawnCount(sys, sys.timeSinceLastSpawn + dt, alive)

ParticleKeys == {"ESC", "1", "2", "3", "4", "5"}

\* key_callback: the digit keys select the system
selected(cur, ks) ==
    LET c1 == IF "1" \in ks THEN "RAIN" ELSE cur
        c2 == IF "2" \in ks THEN "WATERFALL" ELSE c1
        c3 == IF "3" \in ks THEN "FIRE" ELSE c2
        c4 == IF "4" \in ks THEN "DUST" ELSE c3
    IN  IF "5" \in ks THEN "COFFEE_CEREMONY" ELSE c4

(***************************************************************************)
(* CEStudents: the running race.                                           *)
(***************************************************************************)
NUM_TRACKS == 5
NUM_STUDENTS == 32
TRACK_LENGTH == 500000
\* students stand 2.0f apart along a track
STAGGER == 20000
\* the time between two frames of the race is 0 or ten seconds
RaceDt == 10 * TICKS
\* the clock of the race stops after this many steps of RaceDt
MaxRaceSteps == 2
\* the R key goes down at most this many times; it may be held on
MaxResets == 2

RaceKeys == {"ESC", "SPACE", "R"}

\* rand(): a linear congruential generator with a 15-bit state
RAND_MAX == 32767
\* one call of rand() is x |-> a * x + c
RandStep == [a |-> 1229, c |-> 1]
nextRand(s) == (s * RandStep.a + RandStep.c) % (RAND_MAX + 1)
\* the states rand() may be in when main starts
RandSeeds == {1, 2}

\* n calls of rand() as one map x |-> a * x + c, by repeated squaring
compose(f, g) ==
    [a |-> (f.a * g.a) % (RAND_MAX + 1), c |-> (f.a * g.c + f.c) % (RAND_MAX + 1)]

RECURSIVE randCalls(_)
randCalls(n) ==
    IF n = 0 THEN [a |-> 1, c |-> 0]
    ELSE IF n % 2 = 0
         THEN compose(randCalls(n \div 2), randCalls(n \div 2))
         ELSE compose(RandStep, randCalls(n - 1))

\* the state of rand() n calls after state s
randAfter(s, n) == (randCalls(n).a * s + randCalls(n).c) % (RAND_MAX + 1)

\* speed = 2.0f + rand() / (RAND_MAX / 2.0f), in UNIT per second
speedOf(r) == 2 * UNIT + (r * 2 * UNIT) \div RAND_MAX

Student(i, r) ==
    [trackNumber |-> i % NUM_TRACKS,
     position |-> TRACK_LENGTH \div 2 - (i \div NUM_TRACKS) * STAGGER,
     speed |-> speedOf(r),
     finishTime |-> 0,
     finished |-> FALSE]

\* initializeStudents(students), from rand() state seed; rand() is called
\* five times per student: speed, phase, red, green, blue
initializeStudents(seed) ==
    [students |-> [k \in 1..NUM_STUDENTS |->
                      Student(k - 1, randAfter(seed, 5 * (k - 1) + 1))],
     rng |-> randAfter(seed, 5 * NUM_STUDENTS)]

Race0 ==
    [students |-> << >>, rng |-> 0, raceStarted |-> FALSE, raceFinished |-> FALSE,
     spacePressed |-> FALSE, rPressed |-> FALSE, deltaTime |-> 0,
     printed |-> << >>, resets |-> 0, held |-> {}]

\* resetRace(students)
resetRace(rc) ==
    [rc EXCEPT !.students = initializeStudents(rc.rng).students,
               !.rng = initializeStudents(rc.rng).rng,
               !.raceStarted = FALSE,
               !.raceFinished = FALSE,
               !.resets = @ + 1]

\* the race keys of processInput(window, students) without the test of
\* spacePressed: SPACE toggles in every frame in which it is down
raceKeys_everyFrame(rc, ks) ==
    LET r1 == IF "SPACE" \in ks
              THEN (IF ~rc.raceStarted
                    THEN [rc EXCEPT !.spacePressed = TRUE, !.raceStarted = TRUE]
                    ELSE IF ~rc.raceFinished
                         THEN [rc EXCEPT !.spacePressed = TRUE, !.raceStarted = FALSE]
                         ELSE [rc EXCEPT !.spacePressed = TRUE])
              ELSE [rc EXCEPT !.spacePressed = FALSE]
    IN  IF "R" \in ks
        THEN (IF ~r1.rPressed THEN [resetRace(r1) EXCEPT !.rPressed = TRUE] ELSE r1)
        ELSE [r1 EXCEPT !.rPressed = FALSE]

\* the race keys of processInput(window, students), ks the keys down
raceKeys(rc, ks) ==
    LET r1 == IF "SPACE" \in ks
              THEN (IF ~rc.spacePressed
                    THEN (IF ~rc.raceStarted
                          THEN [rc EXCEPT !.spacePressed = TRUE, !.raceStarted = TRUE]
                          ELSE IF ~rc.raceFinished
                               THEN [rc EXCEPT !.spacePressed = TRUE, !.raceStarted = FALSE]
                               ELSE [rc EXCEPT !.spacePressed = TRUE])
                    ELSE rc)
              ELSE [rc EXCEPT !.spacePressed = FALSE]
    IN  IF "R" \in ks
        THEN (IF ~r1.rPressed THEN [resetRace(r1) EXCEPT !.rPressed = TRUE] ELSE r1)
        ELSE [r1 EXCEPT !.rPressed = FALSE]

\* the lines the race keys print
raceLines(rc, ks) ==
    (IF "SPACE" \in ks /\ ~rc.spacePressed
     THEN (IF ~rc.raceStarted THEN <<"Race started!">>
           ELSE IF ~rc.raceFinished THEN <<"Race paused!">> ELSE << >>)
     ELSE << >>)
    \o (IF "R" \in ks /\ ~rc.rPressed THEN <<"Race reset!">> ELSE << >>)

\* the update of one student in the render loop, dt ticks after the last frame
advance(st, dt, t) ==
    IF st.finished THEN st
    ELSE LET pos == st.position - (st.speed * (dt \div 100)) \div 100
         IN  IF pos <= -(TRACK_LENGTH \div 2)
             THEN [st EXCEPT !.position = pos, !.finished = TRUE, !.finishTime = t]
             ELSE [st EXCEPT !.position = pos]

(***************************************************************************)
(* The bounds of the breakout runs.                                        *)
(***************************************************************************)
\* updateGame() is called at most this many times in one run
MaxUpdates == 4
\* the clock stops after this many steps of GameDt
MaxClockSteps == 3
\* a visit lasts this many clock steps
VisitSteps == 1
\* the time between two frames of the breakout game is 0 or two minutes
GameDt == 120 * TICKS
\* glfwGetTime() when main reaches its loop: 0 or one minute
StartTimes == {0, 60 * TICKS}
StartTimeMax == 60 * TICKS

VARIABLES
    prog,        \* the program that runs
    env,         \* what the platform does: which start-up calls fail
    user,        \* what the user does: the keys used, when the clock stops
    probe,       \* the latest call of checkCollision on its own: arguments, result
    pc,          \* where main is
    out,         \* the lines written to standard output, in order
    status,      \* main's return value, "running" until it returns
    gl,          \* the GL objects: live, deleted, deleted twice, made in the loop
    shouldClose, \* glfwWindowShouldClose(window)
    keys,        \* the keys that are down, as of the last glfwPollEvents
    frames,      \* render-loop iterations begun (saturates at MaxFrames)
    now,         \* glfwGetTime(), in ticks
    gameState,   \* game2D.cpp: the GameState global
    lastSecond,  \* game2D.cpp: displayCountdown's static
    frame,       \* what the current frame of the breakout loop did
    lastFrame,   \* the lastFrame global of the programs that compute deltaTime
    psys,        \* naturalphenomena: the particle system under observation
    currentSystem, \* naturalphenomena: the system the loop updates
    race         \* CEStudents: the students and the race state

vars == <<prog, env, user, probe, pc, out, status, gl, shouldClose, keys, frames, now,
          gameState, lastSecond, frame, lastFrame, psys, currentSystem, race>>

lifeVars == <<prog, env, user, probe>>
gameVars == <<gameState, lastSecond, frame>>
partVars == <<psys, currentSystem>>

(***************************************************************************)
(* GL object book-keeping.                                                 *)
(***************************************************************************)
GL0 == [live |-> {}, deleted |-> {}, twice |-> {}, inLoop |-> {}]

\* glGen* / glCreateProgram of the objects named
glGen(g, names, inFrame) ==
    [g EXCEPT !.live = @ \cup names,
              !.deleted = @ \ names,
              !.inLoop = IF inFrame THEN @ \cup names ELSE @]

\* one glDelete* call; a name that was never generated is the name 0,
\* which GL ignores
glDelete(g, name) ==
    IF name \in g.live
    THEN [g EXCEPT !.live = @ \ {name}, !.deleted = @ \cup {name}]
    ELSE IF name \in g.deleted
         THEN [g EXCEPT !.twice = @ \cup {name}]
         ELSE g

RECURSIVE glDeleteAll(_, _)
glDeleteAll(g, calls) ==
    IF calls = << >> THEN g
    ELSE glDeleteAll(glDelete(g, Head(calls)), Tail(calls))

(***************************************************************************)
(* Start-up.                                                               *)
(***************************************************************************)
\* a compile stage fails when the platform says so; a link stage also fails
\* when a shader attached to it did not compile
StageFails(p, e, s) ==
    s.id \in e.failed \/ (s.inputs \cap e.failed # {})

\* the lines the shader stages print, in order
ShaderLog(p, e) ==
    LET bad == SelectSeq(ShaderStages(p), LAMBDA s : s.checked /\ StageFails(p, e, s))
    IN  [i \in DOMAIN bad |-> StageMessage(bad[i].kind)]

Probe0 ==
    [a |-> GameObject(0, 0, 0, 0), b |-> GameObject(0, 0, 0, 0),
     result |-> FALSE, done |-> FALSE]

Frame0 ==
    [elapsed |-> 0, updateCalled |-> FALSE, renderCalled |-> FALSE,
     resetDone |-> FALSE, updates |-> 0]

Envs(p) ==
    {e \in [glfwOk : BOOLEAN, windowOk : BOOLEAN, gladOk : BOOLEAN,
            fontOk : BOOLEAN, failed : SUBSET StageIds(p)] :
        /\ Cardinality(e.failed) <= MaxShaderFailures
        /\ (p \notin RacePrograms => e.fontOk)}

InitCommon ==
    /\ pc = "glfwInit"
    /\ out = << >>
    /\ status = "running"
    /\ gl = GL0
    /\ shouldClose = FALSE
    /\ keys = {}
    /\ frames = 0
    /\ now \in (IF prog = "game2D" THEN StartTimes ELSE {0})
    /\ gameState = GameState0
    /\ lastSecond = -1
    /\ frame = Frame0
    /\ lastFrame = 0
    /\ currentSystem = "RAIN"
    /\ race = Race0

\* the keys a program reads
KeysOf(p) ==
    CASE p = "game2D" -> GameKeys
      [] p = "naturalphenomena" -> ParticleKeys
      [] p = "CEStudents" -> RaceKeys
      [] OTHER -> {"ESC"}

\* the time between two frames, when it is not 0
DtOf(p) ==
    CASE p = "game2D" -> GameDt
      [] p = "naturalphenomena" -> ParticleDt
      [] p \in RacePrograms -> RaceDt
      [] OTHER -> 0

\* a user who plays: every key, the clock runs to the program's bound
Player(p) ==
    [keys |-> KeysOf(p),
     horizon |-> CASE p = "game2D" -> StartTimeMax + MaxClockSteps * GameDt
                   [] p = "naturalphenomena" -> MaxParticleSteps * ParticleDt
                   [] p \in RacePrograms -> MaxRaceSteps * RaceDt
                   [] OTHER -> 0]

\* a user who only watches and leaves: ESC, the clock stops after VisitSteps
Visitor(p) == [keys |-> {"ESC"}, horizon |-> VisitSteps * DtOf(p)]

\* every program under every start-up fault; the breakout game is played,
\* the other programs are visited.  Before main constructs it, the observed
\* particle system is only a choice of type.
Init ==
    /\ prog \in Programs
    /\ env \in Envs(prog)
    /\ user = IF prog = "game2D" THEN Player(prog) ELSE Visitor(prog)
    /\ psys = System0("RAIN")
    /\ probe = Probe0
    /\ InitCommon

\* return -1 after printing msg
Fail(msg) ==
    /\ out' = Append(out, msg)
    /\ status' = -1
    /\ pc' = "done"

GlfwInit ==
    /\ pc = "glfwInit"
    /\ IF ChecksGlfwInit(prog) /\ ~env.glfwOk
       THEN Fail(MSG_GLFW)
       ELSE pc' = "createWindow" /\ UNCHANGED <<out, status>>
    /\ UNCHANGED <<lifeVars, gl, shouldClose, keys, frames, now, gameVars, lastFrame, partVars, race>>

\* glfwCreateWindow returns NULL also when GLFW was not initialised
windowCreated_always(e) == TRUE

windowCreated(e) == e.windowOk /\ e.glfwOk

CreateWindow ==
    /\ pc = "createWindow"
    /\ IF ~windowCreated(env)
       THEN Fail(MSG_WINDOW)
       ELSE pc' = "loadGL" /\ UNCHANGED <<out, status>>
    /\ UNCHANGED <<lifeVars, gl, shouldClose, keys, frames, now, gameVars, lastFrame, partVars, race>>

LoadGL ==
    /\ pc = "loadGL"
    /\ IF ~env.gladOk
       THEN Fail(MSG_GLAD)
       ELSE pc' = "setup" /\ UNCHANGED <<out, status>>
    /\ UNCHANGED <<lifeVars, gl, shouldClose, keys, frames, now, gameVars, lastFrame, partVars, race>>

\* the rest of main before the loop: shaders, vertex arrays, initial state
Setup ==
    /\ pc = "setup"
    /\ gl' = glGen(gl, StartupObjects(prog, env.fontOk), FALSE)
    /\ out' = out \o ShaderLog(prog, env) \o
              (IF prog = "game2D"
               THEN <<"Game will start in 4 minutes. Please wait...">> ELSE << >>)
    /\ IF prog = "game2D"
       THEN \E r \in RandValues :
               gameState' = [initGame(gameState, r) EXCEPT !.startTime = now]
       ELSE gameState' = gameState
    /\ IF prog = "naturalphenomena"
       THEN \E lives \in [1..Prepopulated(psys.type) -> LifeChoices(psys.type)] :
               psys' = construct(psys.type, lives)
       ELSE psys' = psys
    /\ IF prog \in RacePrograms
       THEN \E seed \in RandSeeds :
               race' = [race EXCEPT !.students = initializeStudents(seed).students,
                                    !.rng = initializeStudents(seed).rng]
       ELSE race' = race
    /\ pc' = "loop"
    /\ UNCHANGED <<lifeVars, status, shouldClose, keys, frames, now, lastSecond,
                   frame, lastFrame, currentSystem>>

(***************************************************************************)
(* The render loop of game2D.cpp.                                          *)
(***************************************************************************)
Bump(n) == IF n < MaxFrames THEN n + 1 ELSE n

\* loop test, then processInput(window)
ProcessInput ==
    /\ prog = "game2D"
    /\ pc = "loop"
    /\ ~shouldClose /\ ~gameState.gameOver
    /\ frame.updates < MaxUpdates
    /\ shouldClose' = ("ESC" \in keys)
    /\ gameState' = movePaddle(gameState, keys)
    /\ frames' = Bump(frames)
    /\ frame' = [frame EXCEPT !.updateCalled = FALSE, !.renderCalled = FALSE,
                              !.resetDone = FALSE]
    /\ pc' = "update"
    /\ UNCHANGED <<lifeVars, out, status, gl, keys, now, lastSecond, lastFrame, partVars, race>>

\* the waiting period is over
waitOver(gs, t) == t - gs.startTime >= WAIT_TIME_SECONDS * TICKS

\* displayCountdown(remaining): a new line when the whole second changes
CountdownLine(sec) == <<"Waiting to start game", sec \div 60, sec % 60>>

\* the time test of the loop, then updateGame() or displayCountdown()
UpdateStep ==
    /\ prog = "game2D"
    /\ pc = "update"
    /\ IF waitOver(gameState, now)
       THEN LET started == [gameState EXCEPT !.gameStarted = TRUE]
                reset == allBricksDestroyed(updateBall(started))
            IN  /\ \E r \in (IF reset THEN RandValues ELSE {0}) :
                      gameState' = updateGame(started, r)
                /\ out' = IF gameState.gameStarted THEN out
                          ELSE Append(out, "Game started!")
                /\ frame' = [frame EXCEPT !.elapsed = now - gameState.startTime,
                                          !.updateCalled = TRUE,
                                          !.resetDone = reset,
                                          !.updates = @ + 1]
                /\ lastSecond' = lastSecond
       ELSE LET sec == (WAIT_TIME_SECONDS * TICKS - (now - gameState.startTime)) \div TICKS
            IN  /\ gameState' = gameState
                /\ lastSecond' = sec
                /\ out' = IF sec # lastSecond THEN Append(out, CountdownLine(sec)) ELSE out
                /\ frame' = [frame EXCEPT !.elapsed = now - gameState.startTime]
    /\ pc' = "render"
    /\ UNCHANGED <<lifeVars, status, gl, shouldClose, keys, frames, now, lastFrame, partVars, race>>

\* the clock may advance by dt between two frames
ClockMay(dt) == dt = 0 \/ now + dt <= user.horizon

\* glfwPollEvents: any keys may be down, the user may close the window
Poll(keySet, dts) ==
    /\ keys' \in SUBSET (keySet \cap user.keys)
    /\ shouldClose' \in {shouldClose, TRUE}
    /\ \E dt \in dts : ClockMay(dt) /\ now' = now + dt

\* the drawing of the frame, glfwSwapBuffers, glfwPollEvents
RenderAndPoll ==
    /\ prog = "game2D"
    /\ pc = "render"
    /\ frame' = [frame EXCEPT !.renderCalled = gameState.gameStarted]
    /\ Poll(GameKeys, {0, GameDt})
    /\ pc' = "loop"
    /\ UNCHANGED <<lifeVars, out, status, gl, frames, gameState, lastSecond, lastFrame, partVars, race>>

(***************************************************************************)
(* The render loop of the programs without simulated state: the rotating   *)
(* cube, the bouncing balls, the lit scene.                                *)
(***************************************************************************)
PlainPrograms == {"cube3D", "bouncingBalls", "scene3D"}

PlainFrame ==
    /\ prog \in PlainPrograms
    /\ pc = "loop"
    /\ ~shouldClose
    /\ frames' = Bump(frames)
    /\ \E closeNow \in BOOLEAN, ks \in SUBSET {"ESC"} :
          /\ shouldClose' = (("ESC" \in keys) \/ closeNow)
          /\ keys' = ks
    /\ UNCHANGED <<lifeVars, pc, out, status, gl, now, gameVars, lastFrame, partVars, race>>

(***************************************************************************)
(* The render loop of naturalphenomena: one iteration.                     *)
(***************************************************************************)
ParticleFrame ==
    /\ prog = "naturalphenomena"
    /\ pc = "loop"
    /\ ~shouldClose
    /\ lastFrame' = now
    /\ frames' = Bump(frames)
    /\ IF currentSystem = psys.type
       THEN \E lives \in [1..updateSpawns(psys, now - lastFrame) -> LifeChoices(psys.type)] :
               psys' = update(psys, now - lastFrame, lives)
       ELSE psys' = psys
    /\ \E ks \in {{}} \cup {{k} : k \in ParticleKeys \cap user.keys}, closeNow \in BOOLEAN :
          /\ keys' = ks \cap {"ESC"}
          /\ currentSystem' = selected(currentSystem, ks)
          /\ shouldClose' = (("ESC" \in keys) \/ closeNow)
    /\ \E dt \in {0, ParticleDt} : ClockMay(dt) /\ now' = now + dt
    /\ UNCHANGED <<lifeVars, pc, out, status, gl, gameVars, race>>

(***************************************************************************)
(* The render loop of the race programs.                                   *)
(***************************************************************************)
\* the frame's timing, then processInput(window, students)
RaceInput ==
    /\ prog \in RacePrograms
    /\ pc = "loop"
    /\ ~shouldClose
    /\ lastFrame' = now
    /\ shouldClose' = ("ESC" \in keys)
    /\ IF prog = "CEStudents"
       THEN race' = [raceKeys(race, keys) EXCEPT !.deltaTime = now - lastFrame,
                                                 !.printed = raceLines(race, keys),
                                                 !.held = keys \cap {"SPACE", "R"}]
       ELSE race' = [race EXCEPT !.deltaTime = now - lastFrame]
    /\ pc' = "raceUpdate"
    /\ UNCHANGED <<lifeVars, out, status, gl, keys, frames, now, gameVars, partVars>>

\* renderStudent draws six cubes per student, each through drawCube, which
\* generates a vertex array and a buffer and deletes both before it returns
drawCube(g) ==
    glDeleteAll(glGen(g, DrawCubeObjects, TRUE), <<"drawCube.VAO", "drawCube.VBO">>)

\* the students' update, the drawing, glfwSwapBuffers, glfwPollEvents
RaceUpdate ==
    /\ prog \in RacePrograms
    /\ pc = "raceUpdate"
    /\ race' = [race EXCEPT !.students =
                   [i \in DOMAIN @ |-> advance(@[i], race.deltaTime, now)]]
    /\ gl' = drawCube(gl)
    /\ frames' = Bump(frames)
    /\ \E ks \in SUBSET (RaceKeys \cap user.keys), closeNow \in BOOLEAN :
          /\ "R" \in ks => (race.resets < MaxResets \/ "R" \in keys)
          /\ keys' = ks
          /\ shouldClose' = (shouldClose \/ closeNow)
    /\ \E dt \in {0, RaceDt} : ClockMay(dt) /\ now' = now + dt
    /\ pc' = "loop"
    /\ UNCHANGED <<lifeVars, out, status, gameVars, lastFrame, partVars>>

(***************************************************************************)
(* After the loop.                                                         *)
(***************************************************************************)
LoopEnds ==
    shouldClose \/ (prog = "game2D" /\ gameState.gameOver)

\* the final message chosen by gameOver instead of gameStarted
FinalLines_ifGameOver ==
    IF prog = "game2D"
    THEN (IF gameState.gameOver
          THEN << <<"Game Over! Final Score: ", gameState.score>> >>
          ELSE <<"Game closed before starting.">>)
    ELSE << >>

FinalLines ==
    IF prog = "game2D"
    THEN (IF gameState.gameStarted
          THEN << <<"Game Over! Final Score: ", gameState.score>> >>
          ELSE <<"Game closed before starting.">>)
    ELSE << >>

Teardown ==
    /\ pc = "loop"
    /\ LoopEnds
    /\ out' = out \o FinalLines
    /\ gl' = glDeleteAll(gl, CleanupCalls(prog))
    /\ status' = 0
    /\ pc' = "done"
    /\ UNCHANGED <<lifeVars, shouldClose, keys, frames, now, gameVars, lastFrame, partVars, race>>

Next ==
    \/ GlfwInit
    \/ CreateWindow
    \/ LoadGL
    \/ Setup
    \/ ProcessInput
    \/ UpdateStep
    \/ RenderAndPoll
    \/ PlainFrame
    \/ ParticleFrame
    \/ RaceInput
    \/ RaceUpdate
    \/ Teardown

Spec == Init /\ [][Next]_vars

(***************************************************************************)
(* naturalphenomena alone, started without faults, every key in use.       *)
(***************************************************************************)
NoFault == [glfwOk |-> TRUE, windowOk |-> TRUE, gladOk |-> TRUE, fontOk |-> TRUE,
            failed |-> {}]

InitParticles ==
    /\ prog = "naturalphenomena"
    /\ env = NoFault
    /\ user = Player(prog)
    /\ psys \in {System0(t) : t \in SystemTypes}
    /\ probe = Probe0
    /\ InitCommon

NextParticles ==
    \/ GlfwInit
    \/ CreateWindow
    \/ LoadGL
    \/ Setup
    \/ ParticleFrame
    \/ Teardown

SpecParticles == InitParticles /\ [][NextParticles]_vars

(***************************************************************************)
(* CEStudents alone, started without faults, every key in use.             *)
(***************************************************************************)
InitRace ==
    /\ prog = "CEStudents"
    /\ env = NoFault
    /\ user = Player(prog)
    /\ psys = System0("RAIN")
    /\ probe = Probe0
    /\ InitCommon

NextRace ==
    \/ GlfwInit
    \/ CreateWindow
    \/ LoadGL
    \/ Setup
    \/ RaceInput
    \/ RaceUpdate
    \/ Teardown

SpecRace == InitRace /\ [][NextRace]_vars

(***************************************************************************)
(* checkCollision on its own: a ball-sized or brick-sized rectangle at the *)
(* probe positions against a rectangle at the origin.  The positions put   *)
(* the rectangles apart, edge to edge and across each other on each axis.  *)
(***************************************************************************)
ProbeXs == {-1200, -1100, -1000, 0, 600, 700, 1100, 1200}
ProbeYs == {-400, -300, -250, -200, 0, 250, 300, 400}

ProbeSizes ==
    {<<BALL_SIZE, BALL_SIZE>>, <<BRICK_WIDTH, BRICK_HEIGHT>>, <<PADDLE_WIDTH, PADDLE_HEIGHT>>}

InitCollision ==
    /\ prog = "game2D"
    /\ env = NoFault
    /\ user = Player(prog)
    /\ psys = System0("RAIN")
    /\ probe = Probe0
    /\ InitCommon

Probe ==
    /\ \E x \in ProbeXs, y \in ProbeYs, sa \in ProbeSizes, sb \in ProbeSizes :
          LET a == GameObject(x, y, sa[1], sa[2])
              b == GameObject(0, 0, sb[1], sb[2])
          IN  probe' = [a |-> a, b |-> b, result |-> checkCollision(a, b), done |-> TRUE]
    /\ UNCHANGED <<prog, env, user, pc, out, status, gl, shouldClose, keys, frames, now,
                   gameVars, lastFrame, partVars, race>>

NextCollision == Probe

SpecCollision == InitCollision /\ [][NextCollision]_vars

(***************************************************************************)
(* The end of a breakout game.  Each state below is reached from initGame  *)
(* by play in which the paddle follows the ball: three calls of updateGame *)
(* before the one that destroys the last brick.                            *)
(***************************************************************************)
EndgameStates ==
    {[ball |-> <<-2942, 6440>>, v |-> <<16, 120>>, paddle |-> -2700, active |-> {6}],
     [ball |-> <<-8241, 5412>>, v |-> <<-63, 76>>, paddle |-> -8400, active |-> {18, 25}],
     [ball |-> <<-6983, 7556>>, v |-> <<-35, -116>>, paddle |-> -7500, active |-> {3}]}

Endgame(e) ==
    [paddle |-> GameObject(e.paddle, PADDLE_Y, PADDLE_WIDTH, PADDLE_HEIGHT),
     ball |-> GameObject(e.ball[1], e.ball[2], BALL_SIZE, BALL_SIZE),
     vx |-> e.v[1], vy |-> e.v[2],
     bricks |-> [i \in DOMAIN NewBricks |-> [NewBricks[i] EXCEPT !.active = i \in e.active]],
     gameOver |-> FALSE,
     score |-> SCORE_PER_BRICK * (BRICK_ROWS * BRICK_COLS - Cardinality(e.active)),
     gameStarted |-> TRUE,
     startTime |-> 0]

InitEndgame ==
    /\ prog = "game2D"
    /\ env = NoFault
    /\ user = Player(prog)
    /\ psys = System0("RAIN")
    /\ probe = Probe0
    /\ pc = "loop"
    /\ out = <<"Game will start in 4 minutes. Please wait...",
               CountdownLine(WAIT_TIME_SECONDS), CountdownLine(WAIT_TIME_SECONDS \div 2),
               "Game started!">>
    /\ status = "running"
    /\ gl = glGen(GL0, StartupObjects(prog, TRUE), FALSE)
    /\ shouldClose = FALSE
    /\ keys = {}
    /\ frames = MaxFrames
    /\ now = WAIT_TIME_SECONDS * TICKS
    /\ gameState \in {Endgame(e) : e \in EndgameStates}
    /\ lastSecond = WAIT_TIME_SECONDS \div 2
    /\ frame = [elapsed |-> WAIT_TIME_SECONDS * TICKS, updateCalled |-> TRUE,
                renderCalled |-> TRUE, resetDone |-> FALSE, updates |-> 0]
    /\ lastFrame = 0
    /\ currentSystem = "RAIN"
    /\ race = Race0

NextEndgame ==
    \/ ProcessInput
    \/ UpdateStep
    \/ RenderAndPoll
    \/ Teardown

SpecEndgame == InitEndgame /\ [][NextEndgame]_vars

(***************************************************************************)
(* The ball coming down on the paddle, and the ball below the paddle.      *)
(* Both states are reached from initGame (first brick destroyed, the ball  *)
(* on its way back) by play that moves the paddle: three calls of          *)
(* updateGame before the ball is level with the paddle, and three before   *)
(* its bottom edge leaves the screen, the paddle left in the middle or     *)
(* held against the right wall.                                            *)
(***************************************************************************)
DescentStates ==
    {[ball |-> <<-2769, -8500>>, v |-> <<71, -100>>, paddle |-> -3600,
      active |-> DOMAIN NewBricks \ {34}],
     [ball |-> <<-1917, -9700>>, v |-> <<71, -100>>, paddle |-> 0,
      active |-> DOMAIN NewBricks \ {34}],
     [ball |-> <<-1917, -9700>>, v |-> <<71, -100>>, paddle |-> 9000,
      active |-> DOMAIN NewBricks \ {34}]}

InitDescent ==
    /\ prog = "game2D"
    /\ env = NoFault
    /\ user = Player(prog)
    /\ psys = System0("RAIN")
    /\ probe = Probe0
    /\ pc = "loop"
    /\ out = <<"Game will start in 4 minutes. Please wait...",
               CountdownLine(WAIT_TIME_SECONDS), CountdownLine(WAIT_TIME_SECONDS \div 2),
               "Game started!">>
    /\ status = "running"
    /\ gl = glGen(GL0, StartupObjects(prog, TRUE), FALSE)
    /\ shouldClose = FALSE
    /\ keys = {}
    /\ frames = MaxFrames
    /\ now = WAIT_TIME_SECONDS * TICKS
    /\ gameState \in {Endgame(e) : e \in DescentStates}
    /\ lastSecond = WAIT_TIME_SECONDS \div 2
    /\ frame = [elapsed |-> WAIT_TIME_SECONDS * TICKS, updateCalled |-> TRUE,
                renderCalled |-> TRUE, resetDone |-> FALSE, updates |-> 0]
    /\ lastFrame = 0
    /\ currentSystem = "RAIN"
    /\ race = Race0

SpecDescent == InitDescent /\ [][NextEndgame]_vars

(***************************************************************************)
(* Properties.                                                             *)
(***************************************************************************)
\* main is past its start-up: in the loop, or returned after it
PastStartup ==
    pc \in {"loop", "update", "render", "raceUpdate"} \/ (pc = "done" /\ status = 0)

\* a point lies in both of two closed intervals
Overlap(lo1, hi1, lo2, hi2) ==
    \E q \in {50 * i : i \in -60..60} : lo1 <= q /\ q <= hi1 /\ lo2 <= q /\ q <= hi2

\* C1: checkCollision(a, b) is true exactly when the x-extents
\* [x - w/2, x + w/2] of a and b share a point and their y-extents share a
\* point; it is false when they overlap on one axis only or on none.
C1_CollisionIffOverlap ==
    probe.done =>
        (probe.result <=>
            /\ Overlap(probe.a.x - probe.a.w \div 2, probe.a.x + probe.a.w \div 2,
                       probe.b.x - probe.b.w \div 2, probe.b.x + probe.b.w \div 2)
            /\ Overlap(probe.a.y - probe.a.h \div 2, probe.a.y + probe.a.h \div 2,
                       probe.b.y - probe.b.h \div 2, probe.b.y + probe.b.h \div 2))

\* a call that returned false for rectangles that overlap on the x axis only
C1_Witness ==
    /\ probe.done
    /\ ~probe.result
    /\ probe.a.x = 0
    /\ probe.a.y - probe.a.h \div 2 > probe.b.y + probe.b.h \div 2

\* C2: after construction and after any sequence of update(dt) calls the
\* number of particles of a system never exceeds its maxParticles.
C2_Capacity == Len(psys.particles) <= psys.maxParticles

\* an update that left the system full with spawn time still owed
C2_Witness ==
    /\ prog = "naturalphenomena"
    /\ pc = "loop"
    /\ psys.lastDt > 0
    /\ psys.maxParticles > 0
    /\ Len(psys.particles) = psys.maxParticles
    /\ psys.timeSinceLastSpawn >= psys.spawnRate

\* C3: every update(dt) takes dt from the life of each particle; a particle
\* whose life reached zero or below is erased in that update and is not
\* moved by it; the particles that remain have life > 0.
C3_LifeAndRemoval ==
    /\ \A i \in DOMAIN psys.particles : psys.particles[i].life > 0
    /\ \A j \in DOMAIN psys.last :
          /\ psys.last[j].life = psys.last[j].before - psys.lastDt
          /\ psys.last[j].erased <=> psys.last[j].life <= 0
          /\ psys.last[j].erased => ~psys.last[j].moved
    /\ Len(psys.particles) >= Cardinality({j \in DOMAIN psys.last : ~psys.last[j].erased})

\* an update that erased one particle and kept and moved another
C3_Witness ==
    /\ psys.lastDt > 0
    /\ \E j \in DOMAIN psys.last : psys.last[j].erased /\ psys.last[j].life <= 0
    /\ \E j \in DOMAIN psys.last : psys.last[j].moved /\ psys.last[j].life > 0

\* C4: in each program, when the window cannot be created or the GL
\* functions cannot be loaded, main logs the failure and returns -1, and no
\* iteration of the render loop has run.
C4_StartupFailure ==
    LET windowFails == (env.glfwOk \/ ~ChecksGlfwInit(prog)) /\ ~(env.windowOk /\ env.glfwOk)
        gladFails == env.windowOk /\ env.glfwOk /\ ~env.gladOk
    IN  /\ (windowFails \/ gladFails) => (~PastStartup /\ pc # "setup" /\ frames = 0)
        /\ (windowFails /\ pc \notin {"glfwInit", "createWindow"}) =>
              (pc = "done" /\ status = -1 /\ out = <<MSG_WINDOW>>)
        /\ (gladFails /\ pc \notin {"glfwInit", "createWindow", "loadGL"}) =>
              (pc = "done" /\ status = -1 /\ out = <<MSG_GLAD>>)

\* a program whose main does not test glfwInit() returned -1 for the window
C4_Witness ==
    /\ ~ChecksGlfwInit(prog)
    /\ ~env.glfwOk
    /\ pc = "done"
    /\ status = -1
    /\ out = <<MSG_WINDOW>>

\* C5: a shader compile or link failure is only logged: main prints the
\* failure, does not exit, and enters its render loop.
C5_ShaderFailureLogged ==
    \A s \in Range(ShaderStages(prog)) :
        (StageFails(prog, env, s) /\ pc # "glfwInit" /\ env.glfwOk /\ env.windowOk /\ env.gladOk
            /\ pc \notin {"createWindow", "loadGL", "setup"})
        => (PastStartup /\ StageMessage(s.kind) \in Range(out))

\* C6: no iteration of a render loop generates a vertex array or a buffer.
C6_NoAllocationInLoop == gl.inLoop = {}

\* C7: when main returns after the loop, every vertex array, buffer and
\* shader program it created has been deleted exactly once.
C7_AllFreedOnce ==
    (pc = "done" /\ status = 0) => (gl.live = {} /\ gl.twice = {})

\* C8: in a frame of the breakout game with elapsed time below
\* WAIT_TIME_SECONDS, gameStarted is false, updateGame is not called, paddle,
\* ball, bricks and score have the values initGame gave them whatever keys
\* are down, and nothing of the game is rendered.
C8_Waiting ==
    (prog = "game2D" /\ pc \in {"render", "loop"} /\ frames > 0
        /\ frame.elapsed < WAIT_TIME_SECONDS * TICKS)
    => /\ ~gameState.gameStarted
       /\ ~frame.updateCalled
       /\ ~frame.renderCalled
       /\ \E r \in RandValues :
             gameState = [initGame(GameState0, r) EXCEPT !.startTime = gameState.startTime]

\* a waiting frame, some of the four minutes gone, with the LEFT key down
C8_Witness ==
    /\ prog = "game2D"
    /\ pc = "render"
    /\ frame.elapsed > 0
    /\ frame.elapsed < WAIT_TIME_SECONDS * TICKS
    /\ "LEFT" \in keys

\* C9: in CEStudents, while raceStarted is false the students' update of a
\* frame changes no student's position and finishes no student.
C9_AdvanceOnlyWhileRunning ==
    [][(prog = "CEStudents" /\ pc = "raceUpdate" /\ ~race.raceStarted)
        => \A i \in DOMAIN race.students :
              /\ race'.students[i].position = race.students[i].position
              /\ race'.students[i].finished = race.students[i].finished]_vars

\* C10: the updateGame call that destroys the last active brick resets the
\* game: on return there are BRICK_ROWS * BRICK_COLS bricks, all active,
\* score 0, paddle and ball where initGame puts them, gameOver false and
\* gameStarted true; once the game has started gameStarted stays true and
\* "Game started!" is printed once.
C10_ResetKeepsStarted ==
    /\ (prog = "game2D" /\ pc = "render" /\ frame.resetDone) =>
          /\ Len(gameState.bricks) = BRICK_ROWS * BRICK_COLS
          /\ \A i \in DOMAIN gameState.bricks : gameState.bricks[i].active
          /\ gameState.score = 0
          /\ gameState.paddle = GameObject(0, PADDLE_Y, PADDLE_WIDTH, PADDLE_HEIGHT)
          /\ gameState.ball = GameObject(0, BALL_Y0, BALL_SIZE, BALL_SIZE)
          /\ ~gameState.gameOver
          /\ gameState.gameStarted
    /\ (prog = "game2D" /\ "Game started!" \in Range(out)) =>
          /\ gameState.gameStarted
          /\ Cardinality({i \in DOMAIN out : out[i] = "Game started!"}) = 1

\* a frame after the frame whose updateGame reset the game
C10_Witness ==
    /\ prog = "game2D"
    /\ pc = "render"
    /\ frame.updateCalled
    /\ ~frame.resetDone
    /\ gameState.gameStarted
    /\ gameState.score = 0
    /\ gameState.ball.y = BALL_Y0 + BALL_VELOCITY
    /\ \A i \in DOMAIN gameState.bricks : gameState.bricks[i].active

\* C11: when the ball's bottom edge is below y = -1 after the ball has moved
\* in updateGame, gameOver is true when the call returns; with gameOver set,
\* or with the close request that ESC makes in processInput, the frame is
\* finished, no further frame begins, and main deletes what it created and
\* returns 0.
C11_FallEndsGame ==
    [][/\ (prog = "game2D" /\ pc = "update" /\ waitOver(gameState, now)
            /\ gameState.ball.y + gameState.vy - gameState.ball.h \div 2 < -UNIT)
           => gameState'.gameOver
       /\ (prog = "game2D" /\ pc = "loop" /\ ~shouldClose /\ ~gameState.gameOver
            /\ "ESC" \in keys)
           => (shouldClose' /\ pc' = "update")
       /\ (prog = "game2D" /\ pc = "loop" /\ (gameState.gameOver \/ shouldClose))
           => (pc' = "done" /\ status' = 0 /\ gl'.live = {} /\ gl'.twice = {}
               /\ frame' = frame)]_vars

\* main has returned 0 after a frame whose updateGame saw the ball leave the
\* screen, the window never asked to close
C11_Witness ==
    /\ prog = "game2D"
    /\ pc = "done"
    /\ status = 0
    /\ gameState.gameOver
    /\ ~shouldClose
    /\ gameState.ball.y - gameState.ball.h \div 2 < -UNIT
    /\ gl.live = {}

\* C12: at every frame boundary of the breakout game the score is 10 times
\* the number of inactive bricks of the current brick set; the score changes
\* only in updateGame, by +10 together with the deactivation of exactly one
\* brick or to 0 with a fresh brick set, and a brick goes from active to
\* inactive only in an updateGame call in which the moved ball collides
\* with it.
C12_ScoreCountsBricks ==
    /\ []((prog = "game2D" /\ pc = "loop")
            => gameState.score =
                  10 * Cardinality({i \in DOMAIN gameState.bricks :
                                       ~gameState.bricks[i].active}))
    /\ [][LET old == gameState
              new == gameState'
              same == DOMAIN old.bricks = DOMAIN new.bricks
              lost == IF same
                      THEN {i \in DOMAIN old.bricks :
                               old.bricks[i].active /\ ~new.bricks[i].active}
                      ELSE {}
              moved == [old.ball EXCEPT !.x = @ + old.vx, !.y = @ + old.vy]
          IN  prog = "game2D" =>
              /\ new.score # old.score =>
                    /\ pc = "update" /\ waitOver(old, now)
                    /\ \/ new.score = old.score + 10 /\ Cardinality(lost) = 1
                       \/ /\ new.score = 0
                          /\ \A i \in DOMAIN new.bricks : new.bricks[i].active
              /\ \A i \in lost :
                    /\ pc = "update" /\ waitOver(old, now)
                    /\ checkCollision(moved, old.bricks[i])
                    /\ new.score = old.score + 10]_vars

\* a frame boundary after an updateGame call that destroyed one of the two
\* bricks left: one brick active, score 390
C12_Witness ==
    /\ prog = "game2D"
    /\ pc = "loop"
    /\ frame.updates > 0
    /\ gameState.score = 390
    /\ \E i \in {18, 25} :
          {j \in DOMAIN gameState.bricks : gameState.bricks[j].active} = {i}

\* C13: whatever LEFT/RIGHT key states the frames see, both keys held
\* included, after every processInput call the paddle lies inside the
\* playfield, -1 <= paddle.x - PADDLE_WIDTH/2 and paddle.x + PADDLE_WIDTH/2
\* <= 1, and the paddle keeps the y position and the size initGame gave it.
C13_PaddleInside ==
    (prog = "game2D" /\ (pc \in {"loop", "update", "render"}
                           \/ (pc = "done" /\ status = 0)))
    => /\ -UNIT <= gameState.paddle.x - PADDLE_WIDTH \div 2
       /\ gameState.paddle.x + PADDLE_WIDTH \div 2 <= UNIT
       /\ gameState.paddle.y = PADDLE_Y
       /\ gameState.paddle.w = PADDLE_WIDTH
       /\ gameState.paddle.h = PADDLE_HEIGHT

\* processInput has returned with RIGHT down and the paddle against the
\* right wall, where it was before the call
C13_Witness ==
    /\ prog = "game2D"
    /\ pc = "update"
    /\ frame.updates = 1
    /\ keys = {"RIGHT"}
    /\ gameState.paddle.x = UNIT - PADDLE_WIDTH \div 2

\* C14: in every updateGame call in which checkCollision(ball, paddle) is
\* true for the moved ball, hitPos = (ball.x - paddle.x) / (paddle.size.x / 2)
\* lies in [-1, 1], so that the reflection angle hitPos * 60 degrees is at
\* most 60 degrees from the vertical.
C14_HitPosWithinUnit ==
    [][LET moved == [gameState.ball EXCEPT !.x = @ + gameState.vx,
                                          !.y = @ + gameState.vy]
           hitPos == RDiv((moved.x - gameState.paddle.x) * UNIT,
                          gameState.paddle.w \div 2)
       IN  (prog = "game2D" /\ pc = "update" /\ waitOver(gameState, now)
            /\ checkCollision(moved, gameState.paddle))
           => (-UNIT <= hitPos /\ hitPos <= UNIT)]_vars

\* C15: an updateGame call in which the moved ball collides with the paddle
\* returns with the ball moving upward, ballVelocity.y >= 0.
C15_UpwardAfterPaddle ==
    [][LET moved == [gameState.ball EXCEPT !.x = @ + gameState.vx,
                                          !.y = @ + gameState.vy]
       IN  (prog = "game2D" /\ pc = "update" /\ waitOver(gameState, now)
            /\ checkCollision(moved, gameState.paddle))
           => gameState'.vy >= 0]_vars

\* updateGame has returned from a call in which the ball, coming down, met
\* the paddle: the ball still touches the paddle and moves upward
C15_Witness ==
    /\ prog = "game2D"
    /\ pc = "render"
    /\ frame.updateCalled
    /\ frame.updates = 3
    /\ checkCollision(gameState.ball, gameState.paddle)
    /\ gameState.vy > 0

\* C16: when the breakout program returns after its render loop it has
\* printed "Game Over! Final Score: <score>" iff the game had started, and
\* "Game closed before starting." iff the window was closed while the last
\* frame was still within the waiting period; one of the two messages is
\* printed, once, and it is the last line.
C16_FinalMessage ==
    (prog = "game2D" /\ pc = "done" /\ status = 0)
    => LET over == <<"Game Over! Final Score: ", gameState.score>>
           closed == "Game closed before starting."
           overAt == {i \in DOMAIN out : over = out[i]}
           closedAt == {i \in DOMAIN out : out[i] = closed}
       IN  /\ overAt # {} <=> "Game started!" \in Range(out)
           /\ overAt # {} <=> gameState.gameStarted
           /\ closedAt # {} <=>
                  (shouldClose /\ frame.elapsed < WAIT_TIME_SECONDS * TICKS)
           /\ Cardinality(overAt \cup closedAt) = 1
           /\ overAt \cup closedAt = {Len(out)}

\* the window was closed in a game that had started: main has returned and
\* its last line is the final score
C16_Witness ==
    /\ prog = "game2D"
    /\ pc = "done"
    /\ status = 0
    /\ shouldClose
    /\ "Game started!" \in Range(out)
    /\ <<"Game Over! Final Score: ", 0>> = out[Len(out)]

\* C17: after the frame of CEStudents in which R goes from released to
\* pressed there are NUM_STUDENTS students, student i on track
\* i mod NUM_TRACKS at its starting position
\* TRACK_LENGTH/2 - (i / NUM_TRACKS) * 2, not finished, finishTime 0, and
\* raceStarted and raceFinished are both false.
C17_ResetRestoresStart ==
    (prog = "CEStudents" /\ pc = "loop" /\ "Race reset!" \in Range(race.printed))
    => /\ Len(race.students) = NUM_STUDENTS
       /\ \A k \in DOMAIN race.students :
             /\ race.students[k].trackNumber = (k - 1) % NUM_TRACKS
             /\ race.students[k].position =
                    TRACK_LENGTH \div 2 - ((k - 1) \div NUM_TRACKS) * STAGGER
             /\ ~race.students[k].finished
             /\ race.students[k].finishTime = 0
       /\ ~race.raceStarted
       /\ ~race.raceFinished

\* C18: SPACE and R act once per key press.  A processInput call of
\* CEStudents toggles the race (SPACE) or resets it (R) exactly when the
\* key is down and was not down in the call before: a key held over
\* consecutive frames acts in the first of them only, and again only after
\* a frame saw it released.  Each such SPACE press flips raceStarted while
\* raceFinished is false (started when it was not, paused when it was); an
\* R press in the same frame then clears it.
C18_OncePerPress ==
    [][(prog = "CEStudents" /\ pc = "loop" /\ ~shouldClose)
       => LET freshSpace == "SPACE" \in keys /\ "SPACE" \notin race.held
              freshR == "R" \in keys /\ "R" \notin race.held
              lines == Range(race'.printed)
          IN  /\ freshR <=> "Race reset!" \in lines
              /\ freshR <=> race'.resets = race.resets + 1
              /\ ~freshR => (race'.students = race.students
                              /\ race'.rng = race.rng
                              /\ race'.resets = race.resets)
              /\ ("Race started!" \in lines \/ "Race paused!" \in lines)
                    => freshSpace
              /\ (freshSpace /\ ~race.raceFinished)
                    => /\ (IF race.raceStarted THEN "Race paused!"
                           ELSE "Race started!") \in lines
                       /\ race'.raceStarted =
                             (IF freshR THEN FALSE ELSE ~race.raceStarted)
              /\ (~freshSpace /\ ~freshR)
                    => race'.raceStarted = race.raceStarted]_vars

\* processInput has returned in a frame that saw SPACE still down after the
\* frame that started the race: nothing was toggled, the race is running
C18_Witness ==
    /\ prog = "CEStudents"
    /\ pc = "raceUpdate"
    /\ "SPACE" \in keys
    /\ "SPACE" \in race.held
    /\ race.printed = << >>
    /\ race.raceStarted

====
